---- MODULE Spec2Model ----
(***************************************************************************)
(* Model of the YouTube harvesting pipeline of youscrapy:                  *)
(*   src/main.py            main (metadata line, call of fetch_videos)     *)
(*   src/youtube_scrapy.py  YouTubeScraper (search loop, record builder,   *)
(*                          caption normalizer, output writer)             *)
(*                                                                         *)
(* Text is a sequence of tokens.  A token is either one of the three       *)
(* characters the code treats specially (TAB, NL, SP) or an opaque chunk   *)
(* of characters that contains none of them.  The Chinese literals of the  *)
(* source are written in English:                                          *)
(*   "开始处理" = "started"        "处理完成" = "completed"                *)
(*   "处理失败: " = "failed: "     "无字幕"   = "no caption"               *)
(*   "获取失败" = "retrieval failed"                                       *)
(*   "手动字幕_" = "manual_caption_"   "自动字幕_" = "auto_caption_"       *)
(***************************************************************************)
EXTENDS Integers, Sequences, FiniteSets, TLC

VARIABLES
    pc,            \* where main / fetch_videos stands
    search_terms,  \* the list given to fetch_videos
    file,          \* the text of output_file
    log,           \* the logger calls made so far
    term_index,    \* enumerate(search_terms, 1): the term being handled
    videos,        \* the entries of the current term not handled yet
    global_index,  \* fetch_videos' counter of candidates attempted
    total_count,   \* fetch_videos' counter of successes
    delays,        \* the time.sleep calls made so far
    ret,           \* what fetch_videos returned (-1 before it returns)
    calls,         \* history: the calls of _process_single_video so far
    searches,      \* history: the searches made so far and their outcomes
    arg,           \* SpecVideo: the inputs of one _process_single_video call
    res            \* SpecVideo: what that call did

vars == <<pc, search_terms, file, log, term_index, videos,
          global_index, total_count, delays, ret, calls, searches, arg, res>>

-----------------------------------------------------------------------------
(* Bounds of the model.                                                    *)

MaxTerms == 2
MaxEntries == 2
MaxTotal == 2
MaxLen == 2
MaxTracks == 2
MaxRecords == 1

-----------------------------------------------------------------------------
(* Text.                                                                   *)

TAB == "\t"
NL == "\n"
SP == " "

RECURSIVE Replace(_, _, _)
\* str.replace(old, new) for a one-character old and new.
Replace(s, old, new) ==
    IF s = <<>> THEN <<>>
    ELSE <<IF Head(s) = old THEN new ELSE Head(s)>> \o Replace(Tail(s), old, new)

RECURSIVE Join(_, _)
\* sep.join(parts): parts is a sequence of texts.
Join(parts, sep) ==
    IF parts = <<>> THEN <<>>
    ELSE IF Len(parts) = 1 THEN parts[1]
    ELSE parts[1] \o <<sep>> \o Join(Tail(parts), sep)

RECURSIVE SplitFrom(_, _, _, _, _)
\* The scan of str.split: i is the position read, cur the piece being
\* read, acc the pieces read so far.
SplitFrom(s, sep, i, cur, acc) ==
    IF i > Len(s) THEN Append(acc, cur)
    ELSE IF s[i] = sep THEN SplitFrom(s, sep, i + 1, <<>>, Append(acc, cur))
    ELSE SplitFrom(s, sep, i + 1, Append(cur, s[i]), acc)

\* str.split(sep): the pieces between the occurrences of sep, empty pieces
\* kept, so always at least one piece.
Split(s, sep) == SplitFrom(s, sep, 1, <<>>, <<>>)

\* The lines of a text file: the pieces between newlines; the text after the
\* last newline is a line only when it is not empty.  at(k) is the position
\* of the k-th newline, 0 before the first and Len(text) + 1 after the last.
Lines(text) ==
    LET P == {i \in 1..Len(text) : text[i] = NL}
        n == Cardinality(P)
        at(k) == IF k = 0 THEN 0
                 ELSE IF k = n + 1 THEN Len(text) + 1
                 ELSE CHOOSE p \in P : Cardinality({q \in P : q < p}) = k - 1
        last == IF n = 0 \/ at(n) < Len(text) THEN n + 1 ELSE n
    IN  IF text = <<>> THEN <<>>
        ELSE [k \in 1..last |-> SubSeq(text, at(k - 1) + 1, at(k) - 1)]

IsSpace(c) == c \in {SP, TAB, NL}

RECURSIVE LStrip(_)
LStrip(s) == IF s # <<>> /\ IsSpace(Head(s)) THEN LStrip(Tail(s)) ELSE s

RECURSIVE RStrip(_)
RStrip(s) ==
    IF s # <<>> /\ IsSpace(s[Len(s)]) THEN RStrip(SubSeq(s, 1, Len(s) - 1)) ELSE s

\* str.strip()
Strip(s) == RStrip(LStrip(s))

-----------------------------------------------------------------------------
(* Python values: a string, an integer, None, or a missing dict key.       *)

StrV(s) == [t |-> "str", s |-> s, n |-> 0]
IntV(n) == [t |-> "int", s |-> <<>>, n |-> n]
NoneV == [t |-> "none", s |-> <<>>, n |-> 0]
Absent == [t |-> "absent", s |-> <<>>, n |-> 0]

\* str(v)
Str(v) ==
    CASE v.t = "str" -> v.s
      [] v.t = "int" -> <<ToString(v.n)>>
      [] OTHER -> <<"None">>

\* bool(v)
Truthy(v) ==
    CASE v.t = "str" -> v.s # <<>>
      [] v.t = "int" -> v.n # 0
      [] OTHER -> FALSE

\* dict.get(key, default)
Get(d, key, default) == IF d[key] = Absent THEN default ELSE d[key]

\* One logger call.
LogEntry(level, msg, n) == [level |-> level, msg |-> msg, n |-> n]

-----------------------------------------------------------------------------
(* Caption normalizer.                                                     *)
(* A caption payload (the text of one HTTP response) is                    *)
(*   kind "empty"      the empty string,                                   *)
(*   kind "malformed"  text that json.loads or the walk over it rejects,   *)
(*   kind "json"       an object, with or without an 'events' array; an    *)
(*                     event has or lacks 'segs', a seg has or lacks       *)
(*                     'utf8'.                                             *)

Payload(kind, hasEvents, events) ==
    [kind |-> kind, hasEvents |-> hasEvents, events |-> events]
Event(hasSegs, segs) == [hasSegs |-> hasSegs, segs |-> segs]
Seg(hasUtf8, utf8) == [hasUtf8 |-> hasUtf8, utf8 |-> utf8]

EmptyPayload == Payload("empty", FALSE, <<>>)
Malformed == Payload("malformed", FALSE, <<>>)

RECURSIVE SegTexts(_)
\* The inner loop over event['segs'].
SegTexts(segs) ==
    IF segs = <<>> THEN <<>>
    ELSE LET seg == Head(segs)
             text == Strip(seg.utf8)
         IN  (IF seg.hasUtf8 /\ text # <<>> /\ text # <<NL>>
              THEN <<text>> ELSE <<>>) \o SegTexts(Tail(segs))

RECURSIVE EventTexts(_)
\* The outer loop over subtitle_data['events'].
EventTexts(events) ==
    IF events = <<>> THEN <<>>
    ELSE (IF Head(events).hasSegs THEN SegTexts(Head(events).segs) ELSE <<>>)
         \o EventTexts(Tail(events))

\* _extract_subtitle_text: the text, and what it logs.
ExtractSubtitleText(subtitle_json) ==
    IF subtitle_json.kind = "json"
    THEN [text |-> Join(IF subtitle_json.hasEvents
                        THEN EventTexts(subtitle_json.events) ELSE <<>>, SP),
          log |-> <<>>]
    ELSE [text |-> <<>>, log |-> <<LogEntry("error", "parse subtitle failed", 0)>>]

NoCaption == <<"no caption">>

RECURSIVE ProcessTracks(_, _)
\* One of the two loops of _process_subtitles over the (lang, content)
\* items of a channel, in the dict's iteration order.
ProcessTracks(items, label) ==
    IF items = <<>> THEN [subs |-> <<>>, log |-> <<>>]
    ELSE LET it == Head(items)
             rest == ProcessTracks(Tail(items), label)
             ex == ExtractSubtitleText(it.content)
         IN  IF it.content.kind = "empty" THEN rest
             ELSE [subs |-> (IF ex.text # <<>>
                             THEN << <<label, it.lang, ": ">> \o ex.text >>
                             ELSE <<>>) \o rest.subs,
                   log |-> ex.log \o rest.log]

\* ProcessSubtitles with the automatic tracks put before the manual ones.
ProcessSubtitles_AutoFirst(subtitles) ==
    LET m == ProcessTracks(subtitles.manual, "manual_caption_")
        a == ProcessTracks(subtitles.auto, "auto_caption_")
        processed_subs == a.subs \o m.subs
    IN  [text |-> IF processed_subs # <<>> THEN Join(processed_subs, TAB)
                  ELSE NoCaption,
         log |-> m.log \o a.log]

\* _process_subtitles: subtitles is the dict {'manual': ..., 'auto': ...}
\* built by _get_video_data, each channel a sequence of (lang, content).
ProcessSubtitles(subtitles) ==
    IF DOMAIN subtitles = {} THEN [text |-> NoCaption, log |-> <<>>]
    ELSE LET m == IF "manual" \in DOMAIN subtitles
                  THEN ProcessTracks(subtitles.manual, "manual_caption_")
                  ELSE [subs |-> <<>>, log |-> <<>>]
             a == IF "auto" \in DOMAIN subtitles
                  THEN ProcessTracks(subtitles.auto, "auto_caption_")
                  ELSE [subs |-> <<>>, log |-> <<>>]
             processed_subs == m.subs \o a.subs
         IN  [text |-> IF processed_subs # <<>> THEN Join(processed_subs, TAB)
                       ELSE NoCaption,
              log |-> m.log \o a.log]

-----------------------------------------------------------------------------
(* Detail fetch.                                                           *)
(* The provider's answer to extract_info(video_url):                       *)
(*   raises     the call raises,                                           *)
(*   isNone     it returns None (ignoreerrors),                            *)
(*   subtitles, automatic_captions                                         *)
(*              sequences of [lang, formats]; a format is [ext, resp] and  *)
(*              resp, the answer of requests.get(url), is                  *)
(*              [raises, status, text].                                    *)

Resp(raises, status, text) == [raises |-> raises, status |-> status, text |-> text]
Format(ext, resp) == [ext |-> ext, resp |-> resp]
Track(lang, formats) == [lang |-> lang, formats |-> formats]
Detail(raises, isNone, subtitles, automatic_captions) ==
    [raises |-> raises, isNone |-> isNone, subtitles |-> subtitles,
     automatic_captions |-> automatic_captions]

HttpOK == 200

RECURSIVE FirstJson3(_, _)
\* next((f for f in formats if f['ext'] == 'json3'), formats[0])
FirstJson3(formats, default) ==
    IF formats = <<>> THEN default
    ELSE IF Head(formats).ext = "json3" THEN Head(formats)
    ELSE FirstJson3(Tail(formats), default)

RECURSIVE FetchTracks(_, _)
\* FetchTracks with the loop left at the first track whose fetch raises.
FetchTracks_StopAtFailure(tracks, failmsg) ==
    IF tracks = <<>> THEN [items |-> <<>>, log |-> <<>>]
    ELSE LET tr == Head(tracks)
             rest == FetchTracks(Tail(tracks), failmsg)
             sub_format == FirstJson3(tr.formats, tr.formats[1])
         IN  IF tr.formats = <<>> THEN rest
             ELSE IF sub_format.resp.raises
             THEN [items |-> <<>>, log |-> <<LogEntry("error", failmsg, 0)>>]
             ELSE IF sub_format.resp.status = HttpOK
             THEN [items |-> <<[lang |-> tr.lang, content |-> sub_format.resp.text]>>
                             \o rest.items,
                   log |-> rest.log]
             ELSE rest

\* One of the two loops of _get_video_data over the subtitle manifest.
FetchTracks(tracks, failmsg) ==
    IF tracks = <<>> THEN [items |-> <<>>, log |-> <<>>]
    ELSE LET tr == Head(tracks)
             rest == FetchTracks(Tail(tracks), failmsg)
             sub_format == FirstJson3(tr.formats, tr.formats[1])
         IN  IF tr.formats = <<>> THEN rest
             ELSE IF sub_format.resp.raises
             THEN [items |-> rest.items,
                   log |-> <<LogEntry("error", failmsg, 0)>> \o rest.log]
             ELSE IF sub_format.resp.status = HttpOK
             THEN [items |-> <<[lang |-> tr.lang, content |-> sub_format.resp.text]>>
                             \o rest.items,
                   log |-> rest.log]
             ELSE rest

\* FetchFailed with the exception let through instead of swallowed.
FetchFailed_Propagates ==
    [raised |-> TRUE, isNone |-> TRUE,
     subtitles |-> [manual |-> <<>>, auto |-> <<>>],
     log |-> <<LogEntry("info", "fetching video info", 0)>>]

\* The except clause of _get_video_data (lines 138-140): the error is
\* logged and None returned; no exception leaves the function (raised).
FetchFailed ==
    [raised |-> FALSE, isNone |-> TRUE,
     subtitles |-> [manual |-> <<>>, auto |-> <<>>],
     log |-> <<LogEntry("info", "fetching video info", 0),
               LogEntry("error", "get video data failed", 0)>>]

\* _get_video_data: isNone is the None it returns on failure.  When
\* extract_info raises, or returns None so that info.get raises, the except
\* clause runs.
GetVideoData(d) ==
    IF d.raises \/ d.isNone
    THEN FetchFailed
    ELSE LET m == FetchTracks(d.subtitles, "get manual caption failed")
             a == FetchTracks(d.automatic_captions, "get auto caption failed")
         IN  [raised |-> FALSE, isNone |-> FALSE,
              subtitles |-> [manual |-> m.items, auto |-> a.items],
              log |-> <<LogEntry("info", "fetching video info", 0)>> \o m.log \o a.log]

-----------------------------------------------------------------------------
(* Output writer.                                                          *)

Headers ==
    <<"sequence_number", "search_term", "term_index", "capture_timestamp",
      "video_id", "title", "channel_name", "channel_id", "publish_date",
      "video_url", "thumbnail_url", "duration_text", "view_count",
      "like_count", "comment_count", "description", "processing_status",
      "caption_text">>

HeaderSet == {Headers[i] : i \in 1..Len(Headers)}

\* The columns _save_video_data cleans of newlines and tabs.
Sanitized == {"title", "channel_name", "description"}

\* default_video_data of _save_video_data.
DefaultVideoData ==
    [h \in HeaderSet |->
        IF h \in {"view_count", "like_count", "comment_count"} THEN IntV(0)
        ELSE IF h = "caption_text" THEN StrV(NoCaption)
        ELSE StrV(<<>>)]

\* default_video_data.update(video_data)
Update(default, video_data) ==
    [h \in DOMAIN default |->
        IF h \in DOMAIN video_data THEN video_data[h] ELSE default[h]]

\* data_fields of _save_video_data.
DataFields(video_data) ==
    LET d == Update(DefaultVideoData, video_data)
    IN  [i \in 1..Len(Headers) |->
            IF Headers[i] \in Sanitized
            THEN Replace(Replace(Str(d[Headers[i]]), NL, SP), TAB, SP)
            ELSE Str(d[Headers[i]])]

\* The line _save_video_data writes for a record.
RecordLine(video_data) == Join(DataFields(video_data), TAB) \o <<NL>>

\* _save_video_data: writeOK tells whether open/write/flush succeed; text is
\* what is appended to the file.  Its try/except Exception spans the whole
\* body, so no exception leaves it (raised).
SaveVideoData(video_data, writeOK) ==
    IF writeOK
    THEN [raised |-> FALSE, text |-> RecordLine(video_data),
          log |-> <<LogEntry("info", "saved", 0)>>]
    ELSE [raised |-> FALSE, text |-> <<>>,
          log |-> <<LogEntry("error", "save failed", 0),
                    LogEntry("error", "problem data", 0)>>]

-----------------------------------------------------------------------------
(* Video record builder.                                                   *)

StubKeys ==
    {"id", "title", "uploader", "channel_id", "upload_date", "thumbnail",
     "duration_string", "view_count", "like_count", "comment_count",
     "description"}

Started == <<"started">>
Completed == <<"completed">>
RetrievalFailed == <<"retrieval failed">>
FailedStatus == <<"failed: ", "error message">>

\* The base record (video_data) of _process_single_video.
BaseRecord(video_info, video_id, term, t_index, g_index) ==
    [h \in HeaderSet |->
        CASE h = "sequence_number" -> IntV(g_index)
          [] h = "search_term" -> StrV(<<term>>)
          [] h = "term_index" -> IntV(t_index)
          [] h = "capture_timestamp" -> StrV(<<"utcnow">>)
          [] h = "video_id" -> video_id
          [] h = "title" -> Get(video_info, "title", StrV(<<>>))
          [] h = "channel_name" -> Get(video_info, "uploader", StrV(<<>>))
          [] h = "channel_id" -> Get(video_info, "channel_id", StrV(<<>>))
          [] h = "publish_date" -> Get(video_info, "upload_date", StrV(<<>>))
          [] h = "video_url" ->
                StrV(<<"https://www.youtube.com/watch?v=">> \o Str(video_id))
          [] h = "thumbnail_url" -> Get(video_info, "thumbnail", StrV(<<>>))
          [] h = "duration_text" -> Get(video_info, "duration_string", StrV(<<>>))
          [] h = "view_count" -> Get(video_info, "view_count", IntV(0))
          [] h = "like_count" -> Get(video_info, "like_count", IntV(0))
          [] h = "comment_count" -> Get(video_info, "comment_count", IntV(0))
          [] h = "description" -> Get(video_info, "description", StrV(<<>>))
          [] h = "processing_status" -> StrV(Started)
          [] OTHER -> StrV(NoCaption)]

\* _process_single_video.  d is the provider's answer to the detail fetch
\* and writeOK the outcome of the file write.  ret is the value returned,
\* text what is appended to the file, fetched whether _get_video_data was
\* called, record the video_data last passed to _save_video_data.
\* MissingId with the check of the id left out.
MissingId_NotChecked(video_id) == FALSE

\* if not video_id (line 207)
MissingId(video_id) == ~Truthy(video_id)

\* The result of a _process_single_video call that returns at line 208.
NoRecord(video_data) ==
    [ret |-> FALSE, text |-> <<>>, log |-> <<>>, fetched |-> FALSE,
     record |-> video_data]

ProcessSingleVideo(video_info, term, t_index, g_index, d, writeOK) ==
    LET video_id == Get(video_info, "id", StrV(<<>>))
        video_data == BaseRecord(video_info, video_id, term, t_index, g_index)
        detailed_data == GetVideoData(d)
        hasSubs == ~detailed_data.raised /\ ~detailed_data.isNone
                   /\ DOMAIN detailed_data.subtitles # {}
        subtitles_content == ProcessSubtitles(detailed_data.subtitles)
        built == IF hasSubs /\ subtitles_content.text # <<>>
                 THEN [video_data EXCEPT
                         !["caption_text"] = StrV(subtitles_content.text),
                         !["processing_status"] = StrV(Completed)]
                 ELSE video_data
        saved == SaveVideoData(built, writeOK)
        tryLog == detailed_data.log
                  \o (IF hasSubs THEN subtitles_content.log ELSE <<>>)
                  \o (IF detailed_data.raised THEN <<>> ELSE saved.log)
        tryText == IF detailed_data.raised THEN <<>> ELSE saved.text
        failed == [built EXCEPT
                     !["processing_status"] = StrV(FailedStatus),
                     !["caption_text"] = StrV(RetrievalFailed)]
        resaved == SaveVideoData(failed, writeOK)
    IN  IF MissingId(video_id)
        THEN NoRecord(video_data)
        ELSE IF detailed_data.raised \/ saved.raised
        THEN \* except Exception (lines 246-255)
             [ret |-> FALSE,
              text |-> tryText \o (IF resaved.raised THEN <<>> ELSE resaved.text),
              log |-> tryLog \o <<LogEntry("error", "process video failed", 0)>>
                      \o resaved.log,
              fetched |-> TRUE, record |-> failed]
        ELSE [ret |-> TRUE, text |-> tryText, log |-> tryLog, fetched |-> TRUE,
              record |-> built]

-----------------------------------------------------------------------------
(* The inputs the model draws from.                                        *)

SeqsUpTo(S, n) == UNION {[1..k -> S] : k \in 0..n}

Terms == {"china travel", "travel china"}

Stub(id, title) ==
    [k \in StubKeys |-> IF k = "id" THEN id ELSE IF k = "title" THEN title ELSE Absent]

\* The stub dicts a search can return.  Only 'id' and 'title' vary: a stub
\* with both, one whose title is None, one without 'id', one with an empty id.
Stubs ==
    {Stub(StrV(<<"a">>), StrV(<<"t">>)),
     Stub(StrV(<<"a">>), NoneV),
     Stub(Absent, StrV(<<"t">>)),
     Stub(StrV(<<>>), StrV(<<"t">>))}

\* The provider's answer to the search: it raises, it returns None or a
\* dict without 'entries', or it returns entries.  entries is the sequence
\* of the entries' truth values (FALSE for a None entry): the fields of a
\* stub are drawn when the loop reaches it, which changes no behaviour
\* since nothing reads them before.
SearchResult(raises, hasEntries, entries) ==
    [raises |-> raises, hasEntries |-> hasEntries, entries |-> entries]

TextPayload(w) == Payload("json", TRUE, <<Event(TRUE, <<Seg(TRUE, <<w>>)>>)>>)
Json3(text) == <<Format("json3", Resp(FALSE, HttpOK, text))>>

\* The answers to the detail fetch drawn in Spec: the fetch raises, a video
\* without caption tracks, a video with a manual and an automatic track.
Details ==
    {Detail(TRUE, FALSE, <<>>, <<>>),
     Detail(FALSE, FALSE, <<>>, <<>>),
     Detail(FALSE, FALSE, <<Track("zh", Json3(TextPayload("hello")))>>,
                          <<Track("en", Json3(TextPayload("world")))>>)}

-----------------------------------------------------------------------------
(* main and fetch_videos.                                                  *)

MetadataLine == <<"{metadata}", NL>>

RECURSIVE Texts(_)
Texts(names) == IF names = <<>> THEN <<>> ELSE << <<Head(names)>> >> \o Texts(Tail(names))

HeaderLine == Join(Texts(Headers), TAB) \o <<NL>>

RECURSIVE NonNull(_)
\* [v for v in results['entries'] if v]
NonNull(entries) ==
    IF entries = <<>> THEN <<>>
    ELSE (IF Head(entries) THEN <<Head(entries)>> ELSE <<>>) \o NonNull(Tail(entries))

Delay(kind, n) == [kind |-> kind, n |-> n]

Init ==
    /\ pc = "main"
    /\ search_terms \in {s \in SeqsUpTo(Terms, MaxTerms) :
                            s = <<>> \/ s[1] = "china travel"}
    /\ file = <<>>
    /\ log = <<>>
    /\ term_index = 0
    /\ videos = <<>>
    /\ global_index = 0
    /\ total_count = 0
    /\ delays = <<>>
    /\ ret = -1
    /\ calls = <<>>
    /\ searches = <<>>
    /\ arg = <<>>
    /\ res = <<>>

\* main, lines 63-76: open(output_file, 'w') and the metadata line.  When
\* the open or the write raises, main's except logs it and main ends.
MainWriteMetadata ==
    /\ pc = "main"
    /\ \E ok \in BOOLEAN :
         IF ok
         THEN /\ file' = MetadataLine
              /\ pc' = "fetch_videos"
              /\ log' = log
         ELSE /\ file' = file
              /\ pc' = "main_failed"
              /\ log' = log \o <<LogEntry("error", "program failed", 0)>>
    /\ UNCHANGED <<search_terms, term_index, videos, global_index,
                   total_count, delays, ret, calls, searches, arg, res>>

\* fetch_videos, lines 259-271: the counters, and the header written with
\* open(output_file, 'w'), which truncates the file.
FetchVideosStart ==
    /\ pc = "fetch_videos"
    /\ \E ok \in BOOLEAN :
         IF ok
         THEN /\ file' = HeaderLine
              /\ pc' = "term_loop"
              /\ log' = log
         ELSE /\ file' = file
              /\ pc' = "main_failed"
              /\ log' = log \o <<LogEntry("error", "program failed", 0)>>
    /\ total_count' = 0
    /\ global_index' = 0
    /\ UNCHANGED <<search_terms, term_index, videos, delays, ret, calls,
                   searches, arg, res>>

\* What one search was asked and answered: n is len(videos).
Search(t, outcome, n) == [t |-> t, outcome |-> outcome, n |-> n]

\* TermErrorPc with the exception leaving fetch_videos.
TermErrorPc_Propagates == "main_failed"

\* Where fetch_videos stands after its except clause (lines 302-304):
\* continue, the next term.
TermErrorPc == "term_loop"

\* fetch_videos, lines 273-287 and 302-304: the next term and its search.
SearchTerm ==
    /\ pc = "term_loop"
    /\ term_index < Len(search_terms)
    /\ term_index' = term_index + 1
    /\ \E r \in {SearchResult(TRUE, FALSE, <<>>), SearchResult(FALSE, FALSE, <<>>)}
              \cup {SearchResult(FALSE, TRUE, e) : e \in SeqsUpTo(BOOLEAN, MaxEntries)} :
         LET head == <<LogEntry("info", "processing term", term_index + 1),
                       LogEntry("info", "searching", 0)>>
         IN  /\ Len(NonNull(r.entries)) <= MaxTotal - global_index
             /\ IF r.raises
                THEN /\ log' = log \o head
                               \o <<LogEntry("error", "term failed", term_index + 1)>>
                     /\ videos' = <<>>
                     /\ pc' = TermErrorPc
                     /\ searches' = Append(searches, Search(term_index + 1, "raised", 0))
                ELSE IF r.hasEntries
                THEN /\ log' = log \o head
                               \o <<LogEntry("info", "found videos",
                                             Len(NonNull(r.entries)))>>
                     /\ videos' = NonNull(r.entries)
                     /\ pc' = "video_loop"
                     /\ searches' = Append(searches,
                            Search(term_index + 1, "entries", Len(NonNull(r.entries))))
                ELSE /\ log' = log \o head
                     /\ videos' = <<>>
                     /\ pc' = "video_loop"
                     /\ searches' = Append(searches, Search(term_index + 1, "none", 0))
    /\ UNCHANGED <<search_terms, file, global_index, total_count, delays, ret,
                   calls, arg, res>>

\* The provider is not asked when _process_single_video makes no detail fetch.
NotAsked == Detail(FALSE, FALSE, <<>>, <<>>)

\* What one call of _process_single_video was given and did: d and writeOK
\* are the outcomes of its detail fetch and of its write, when it got that far.
Call(g, t, video_info, d, writeOK, r) ==
    [g |-> g, t |-> t, video_info |-> video_info,
     d |-> IF r.fetched THEN d ELSE NotAsked,
     writeOK |-> r.fetched /\ writeOK,
     ret |-> r.ret, fetched |-> r.fetched, text |-> r.text]

\* video.get('title', '')[:50] of line 292 raises unless the title is a string.
Sliceable(v) == v.t = "str"

\* NextIndex with the increment left out.
NextIndex_NoIncrement(g) == g

\* global_index += 1 (line 290)
NextIndex(g) == g + 1

\* fetch_videos, lines 289-300 and 302-304: one iteration of the loop over
\* the videos of the term.
VideoStep ==
    /\ pc = "video_loop"
    /\ videos # <<>>
    /\ global_index' = NextIndex(global_index)
    /\ \E video \in Stubs :
       LET term == search_terms[term_index]
           g == NextIndex(global_index)
           head == <<LogEntry("info", "processing video", g)>>
       IN  IF ~Sliceable(Get(video, "title", StrV(<<>>)))
           THEN /\ log' = log \o head
                          \o <<LogEntry("error", "term failed", term_index)>>
                /\ videos' = <<>>
                /\ pc' = TermErrorPc
                /\ UNCHANGED <<file, total_count, delays, calls>>
           ELSE \E d \in Details, writeOK \in BOOLEAN :
                  LET r == ProcessSingleVideo(video, term, term_index, g, d, writeOK)
                  IN  /\ file' = file \o r.text
                      /\ total_count' = IF r.ret THEN total_count + 1 ELSE total_count
                      /\ log' = log \o head \o <<LogEntry("info", "video title", g)>>
                                \o r.log
                                \o (IF r.ret
                                    THEN <<LogEntry("info", "video succeeded", g)>>
                                    ELSE <<>>)
                                \o <<LogEntry("info", "waiting", 0)>>
                      /\ delays' = Append(delays, Delay("video", g))
                      /\ calls' = Append(calls, Call(g, term_index, video, d, writeOK, r))
                      /\ videos' = Tail(videos)
                      /\ pc' = "video_loop"
    /\ UNCHANGED <<search_terms, term_index, ret, searches, arg, res>>

\* fetch_videos, lines 306-309: after the videos of a term.
TermDelay ==
    /\ pc = "video_loop"
    /\ videos = <<>>
    /\ IF search_terms[term_index] # search_terms[Len(search_terms)]
       THEN /\ delays' = Append(delays, Delay("term", term_index))
            /\ log' = log \o <<LogEntry("info", "waiting for next term", 0)>>
       ELSE UNCHANGED <<delays, log>>
    /\ pc' = "term_loop"
    /\ UNCHANGED <<search_terms, file, term_index, videos, global_index,
                   total_count, ret, calls, searches, arg, res>>

\* fetch_videos, lines 311-315: the loop is over.
Finish ==
    /\ pc = "term_loop"
    /\ term_index = Len(search_terms)
    /\ log' = log \o <<LogEntry("info", "all searches done", 0),
                       LogEntry("info", "attempted", global_index),
                       LogEntry("info", "succeeded", total_count)>>
    /\ ret' = total_count
    /\ pc' = "done"
    /\ UNCHANGED <<search_terms, file, term_index, videos, global_index,
                   total_count, delays, calls, searches, arg, res>>

Next ==
    \/ MainWriteMetadata
    \/ FetchVideosStart
    \/ SearchTerm
    \/ VideoStep
    \/ TermDelay
    \/ Finish

Spec == Init /\ [][Next]_vars

-----------------------------------------------------------------------------------------------------------------------------------------------
(* Reading the output file back.                                           *)

FileLines == Lines(file)

\* fetch_videos has written its header and has not been left by an exception.
Running == pc \in {"term_loop", "video_loop", "done"}

\* The lines after the first one.
BodyLines == IF FileLines = <<>> THEN <<>> ELSE Tail(FileLines)

\* The body lines, each split on tab.
Records == [k \in 1..Len(BodyLines) |-> Split(BodyLines[k], TAB)]

ColumnIndex(name) == CHOOSE i \in 1..Len(Headers) : Headers[i] = name

SeqCol == ColumnIndex("sequence_number")
TermCol == ColumnIndex("term_index")
IdCol == ColumnIndex("video_id")
StatusCol == ColumnIndex("processing_status")
CaptionCol == ColumnIndex("caption_text")

\* The field of a split line in column i, <<>> when the line is too short.
Column(fields, i) == IF i <= Len(fields) THEN fields[i] ELSE <<>>

\* Those of the split lines recs whose sequence_number is g.
RecordsFor(recs, g) ==
    {k \in 1..Len(recs) : Column(recs[k], SeqCol) = <<ToString(g)>>}

IdOf(c) == Get(c.video_info, "id", StrV(<<>>))

DetailFetchFailed(c) == c.fetched /\ (c.d.raises \/ c.d.isNone)

WritingCalls == SelectSeq(calls, LAMBDA c : c.text # <<>>)

-----------------------------------------------------------------------------
(* C1 *)

-----------------------------------------------------------------------------
(* C2 *)

\* C2 (as claimed): every candidate whose id extraction succeeded has exactly
\* one record in the output file, whatever the detail fetch, the caption
\* processing and the write did.
C2_ExactlyOneRecord ==
    Running =>
        LET recs == Records
        IN  \A i \in 1..Len(calls) :
                Truthy(IdOf(calls[i])) =>
                    Cardinality(RecordsFor(recs, calls[i].g)) = 1

-----------------------------------------------------------------------------
(* C3 *)

-----------------------------------------------------------------------------
(* C4 *)

\* C4 (as claimed): a record is "completed" only if the caption aggregation
\* gave text other than the "no caption" fallback.
C4_CompletedOnlyWithCaptions ==
    Running =>
        LET recs == Records
        IN  \A k \in 1..Len(recs) :
                Column(recs[k], StatusCol) = Completed
                    => Column(recs[k], CaptionCol) # NoCaption

-----------------------------------------------------------------------------
(* C5 *)

\* C5 (as claimed): once fetch_videos runs, the first line of the file is
\* the metadata line and the header is the line after it.
C5_MetadataLineKept ==
    Running =>
        LET lines == FileLines
        IN  /\ Len(lines) >= 2
            /\ lines[1] = Lines(MetadataLine)[1]
            /\ lines[2] = Lines(HeaderLine)[1]

-----------------------------------------------------------------------------
(* C7 *)

\* C7: the terms are searched once each in list order; a search that
\* raises is logged, one that raises or returns no entries leaves no call of
\* _process_single_video and no record of its term, and fetch_videos goes on:
\* it is never left by an exception once a search was made, it can always
\* take a step until it returns, and it returns after the last term.
C7_SearchFailureNonFatal ==
    LET recs == Records
    IN  /\ Len(searches) = term_index
        /\ \A i \in 1..Len(searches) :
              /\ searches[i].t = i
              /\ searches[i].outcome \in {"raised", "none"} =>
                    /\ \A k \in 1..Len(calls) : calls[k].t # i
                    /\ \A k \in 1..Len(recs) :
                          Column(recs[k], TermCol) # <<ToString(i)>>
              /\ searches[i].outcome = "raised" =>
                    \E n \in 1..Len(log) : log[n] = LogEntry("error", "term failed", i)
        /\ pc = "main_failed" => searches = <<>>
        /\ pc \in {"term_loop", "video_loop"} => ENABLED Next
        /\ pc = "done" => Len(searches) = Len(search_terms) /\ ret = total_count

\* A finished run whose first search raised, and whose second search
\* returned a video that was recorded.
C7_Witness ==
    /\ pc = "done"
    /\ Len(searches) = 2
    /\ searches[1].outcome = "raised"
    /\ searches[2].outcome = "entries"
    /\ \E k \in 1..Len(Records) : Column(Records[k], TermCol) = <<"2">>

-----------------------------------------------------------------------------
(* C8 *)

\* C8 (as claimed): every non-null entry a successful search returned is
\* passed to _process_single_video.
C8_EveryEntryProcessed ==
    pc = "done" =>
        \A i \in 1..Len(searches) :
            Cardinality({k \in 1..Len(calls) : calls[k].t = i}) = searches[i].n

-----------------------------------------------------------------------------
(* C9 *)

\* C9: every body line has a non-empty video_id field, and a call of
\* _process_single_video whose stub has no id, or an empty one, fetches
\* nothing and writes nothing.
C9_VideoIdNonEmpty ==
    Running =>
        LET recs == Records
        IN  /\ \A k \in 1..Len(recs) : Column(recs[k], IdCol) # <<>>
            /\ \A i \in 1..Len(calls) :
                  ~Truthy(IdOf(calls[i])) =>
                      /\ ~calls[i].fetched
                      /\ ~calls[i].ret
                      /\ RecordsFor(recs, calls[i].g) = {}

\* A finished run that met a stub without id, or with an empty one, and
\* recorded another video.
C9_Witness ==
    /\ pc = "done"
    /\ \E i \in 1..Len(calls) : calls[i].video_info["id"] \in {Absent, StrV(<<>>)}
    /\ BodyLines # <<>>

-----------------------------------------------------------------------------
(* C10 *)

\* C10 (as claimed): when the detail fetch or the write raises, the record
\* is written with processing_status "failed: <message>" and caption_text
\* "retrieval failed"; a call that fails before the base record exists
\* writes nothing.
C10_FailedRecordWritten ==
    Running =>
        LET recs == Records
        IN  \A i \in 1..Len(calls) :
                IF calls[i].fetched
                THEN (calls[i].d.raises \/ ~calls[i].writeOK) =>
                        \E k \in RecordsFor(recs, calls[i].g) :
                            /\ Column(recs[k], StatusCol) = FailedStatus
                            /\ Column(recs[k], CaptionCol) = RetrievalFailed
                ELSE RecordsFor(recs, calls[i].g) = {}

-----------------------------------------------------------------------------
(* C11 *)

\* The positions in delays of the delay of the given kind and number.
DelayAt(kind, n) == {k \in 1..Len(delays) : delays[k] = Delay(kind, n)}

\* C11 (as claimed): every call of _process_single_video is followed by one
\* per-video delay, taken before the next video is handled; every term but
\* the last of the list is followed by one per-term delay, taken after the
\* delays of its videos and before the search of the next term, whether the
\* list repeats a term or a search failed; the last term is followed by none.
C11_DelayOrdering ==
    Running =>
        /\ \A i \in 1..Len(calls) :
              /\ Cardinality(DelayAt("video", calls[i].g)) = 1
              /\ \A j \in 1..Len(calls) :
                    i < j => \A k \in DelayAt("video", calls[i].g),
                                m \in DelayAt("video", calls[j].g) : k < m
        /\ \A t \in 1..(Len(searches) - 1) :
              /\ Cardinality(DelayAt("term", t)) = 1
              /\ \A i \in 1..Len(calls), k \in DelayAt("term", t) :
                    \A m \in DelayAt("video", calls[i].g) :
                        IF calls[i].t <= t THEN m < k ELSE k < m
        /\ DelayAt("term", Len(search_terms)) = {}

-----------------------------------------------------------------------------
(* C15 *)

\* C15 (as claimed): the count fetch_videos returns is the number of body
\* lines of the output file whose processing_status is not a "failed: ..."
\* one, also when a write of _save_video_data failed, and it is at most the
\* number of candidates attempted.
C15_CountMatchesLines ==
    pc = "done" =>
        LET recs == Records
        IN  /\ ret = Cardinality({k \in 1..Len(recs) :
                                    Column(recs[k], StatusCol) # FailedStatus})
            /\ ret <= global_index

-----------------------------------------------------------------------------
(* SpecVideo: one call of _process_single_video on inputs drawn from wider *)
(* sets than fetch_videos is given above: fields with tabs and newlines,   *)
(* absent and None fields, captions with an embedded newline.              *)

VChars == {"a", TAB, NL}

VStub(id, title, uploader, description, view_count) ==
    [k \in StubKeys |->
        CASE k = "id" -> id
          [] k = "title" -> title
          [] k = "uploader" -> uploader
          [] k = "description" -> description
          [] k = "view_count" -> view_count
          [] OTHER -> Absent]

VStubs ==
    {VStub(id, title, uploader, description, view_count) :
        id \in {StrV(<<"a">>), Absent},
        title \in {StrV(t) : t \in SeqsUpTo(VChars, MaxLen)} \cup {NoneV, Absent},
        uploader \in {Absent, StrV(<<"u", TAB, "v">>)},
        description \in {Absent, StrV(<<"d", NL>>)},
        view_count \in {Absent, IntV(7)}}

TwoLinePayload == Payload("json", TRUE, <<Event(TRUE, <<Seg(TRUE, <<"x", NL, "y">>)>>)>>)

\* The formats of a track whose requests.get raises.
FailedGet == <<Format("json3", Resp(TRUE, 0, EmptyPayload))>>

VDetails ==
    Details \cup
    {Detail(FALSE, TRUE, <<>>, <<>>),
     Detail(FALSE, FALSE, <<Track("en", Json3(Malformed))>>, <<>>),
     Detail(FALSE, FALSE, <<Track("en", Json3(TextPayload("hello")))>>, <<>>),
     Detail(FALSE, FALSE, <<>>, <<Track("en", Json3(TwoLinePayload))>>),
     Detail(FALSE, FALSE, <<Track("en", FailedGet), Track("zh", Json3(TextPayload("hello")))>>,
                          <<>>),
     Detail(FALSE, FALSE, <<Track("en", Json3(Malformed))>>,
                          <<Track("ja", FailedGet), Track("en", Json3(TextPayload("world")))>>)}

InitVideo ==
    /\ pc = "video_call"
    /\ arg \in [video_info : VStubs, d : VDetails, writeOK : BOOLEAN]
    /\ res = <<>>
    /\ search_terms = <<"china travel">>
    /\ file = HeaderLine
    /\ log = <<>>
    /\ term_index = 1
    /\ videos = <<>>
    /\ global_index = 1
    /\ total_count = 0
    /\ delays = <<>>
    /\ ret = -1
    /\ calls = <<>>
    /\ searches = <<>>

\* The call of line 294.
VideoCall ==
    /\ pc = "video_call"
    /\ res' = ProcessSingleVideo(arg.video_info, search_terms[term_index],
                                 term_index, global_index, arg.d, arg.writeOK)
    /\ file' = file \o res'.text
    /\ log' = log \o res'.log
    /\ pc' = "video_done"
    /\ UNCHANGED <<search_terms, term_index, videos, global_index, total_count,
                   delays, ret, calls, searches, arg>>

NextVideo == VideoCall

SpecVideo == InitVideo /\ [][NextVideo]_vars

-----------------------------------------------------------------------------
(* C6 *)

\* The 18 values of a record in header order, the free-text ones with each
\* newline and tab replaced by a space.
C6_Expected(record) ==
    [i \in 1..Len(Headers) |->
        LET v == Str(record[Headers[i]])
        IN  IF Headers[i] \in Sanitized
            THEN Replace(Replace(v, NL, SP), TAB, SP)
            ELSE v]

\* C6 (as claimed): what _save_video_data appends for a record is exactly
\* one line, and splitting the line on tab gives the record's 18 values,
\* sanitized, in header order.
C6_RoundTrip ==
    (pc = "video_done" /\ res.text # <<>>) =>
        LET lines == Lines(res.text)
        IN  /\ res.text[Len(res.text)] = NL
            /\ Len(lines) = 1
            /\ Split(lines[1], TAB) = C6_Expected(res.record)

-----------------------------------------------------------------------------
(* SpecCaptions: one call of _process_subtitles on the dicts                *)
(* _get_video_data can build: per channel up to MaxTracks languages, each   *)
(* with a response text that is empty, is not JSON, has only blank segment  *)
(* text, or has text.                                                       *)

Langs == {"en", "zh", "ja"}

BlankPayload == Payload("json", TRUE, <<Event(TRUE, <<Seg(TRUE, <<SP>>)>>)>>)

Contents == {EmptyPayload, Malformed, BlankPayload, TextPayload("hello")}

\* The items of a channel dict: the languages are its keys, so distinct.
Channels ==
    {c \in SeqsUpTo([lang : Langs, content : Contents], MaxTracks) :
        \A i, j \in 1..Len(c) : i # j => c[i].lang # c[j].lang}

InitCaptions ==
    /\ pc = "captions_call"
    /\ arg \in [manual : Channels, auto : Channels]
    /\ res = <<>>
    /\ search_terms = <<>>
    /\ file = <<>>
    /\ log = <<>>
    /\ term_index = 0
    /\ videos = <<>>
    /\ global_index = 0
    /\ total_count = 0
    /\ delays = <<>>
    /\ ret = -1
    /\ calls = <<>>
    /\ searches = <<>>

\* The call of line 237.
CaptionsCall ==
    /\ pc = "captions_call"
    /\ res' = ProcessSubtitles(arg)
    /\ log' = log \o res'.log
    /\ pc' = "captions_done"
    /\ UNCHANGED <<search_terms, file, term_index, videos, global_index,
                   total_count, delays, ret, calls, searches, arg>>

NextCaptions == CaptionsCall

SpecCaptions == InitCaptions /\ [][NextCaptions]_vars

-----------------------------------------------------------------------------
(* C12 *)

\* The normalized text of a track.
Normalized(it) == ExtractSubtitleText(it.content).text

\* The labeled texts of the tracks of a channel whose normalized text is
\* not empty, in the channel's order.
LabeledNonEmpty(items, label) ==
    LET kept == SelectSeq(items, LAMBDA it : Normalized(it) # <<>>)
    IN  [k \in 1..Len(kept) |-> <<label, kept[k].lang, ": ">> \o Normalized(kept[k])]

\* C12: the text returned by _process_subtitles is the tab-join of the
\* labeled texts of exactly the tracks whose normalized text is not empty,
\* the manual ones before the automatic ones, each group in the dict's
\* order; without such a track (no track at all, or every track empty after
\* normalization) it is the "no caption" literal.
C12_TabJoinManualFirst ==
    pc = "captions_done" =>
        LET all == LabeledNonEmpty(arg.manual, "manual_caption_")
                   \o LabeledNonEmpty(arg.auto, "auto_caption_")
        IN  res.text = IF all = <<>> THEN NoCaption ELSE Join(all, TAB)

\* A call with a manual track that does not parse, a manual track with
\* text and an automatic track with text: the two texts, manual first.
C12_Witness ==
    /\ pc = "captions_done"
    /\ arg.manual = <<[lang |-> "en", content |-> Malformed],
                      [lang |-> "zh", content |-> TextPayload("hello")]>>
    /\ arg.auto = <<[lang |-> "en", content |-> TextPayload("hello")]>>
    /\ res.text = <<"manual_caption_", "zh", ": ", "hello", TAB,
                    "auto_caption_", "en", ": ", "hello">>

-----------------------------------------------------------------------------
(* C13 *)

\* The response _get_video_data asks for a track, when it asks for one.
Chosen(tr) == FirstJson3(tr.formats, tr.formats[1])

\* The track gives text: its fetch succeeds and its payload parses to text.
TrackGood(tr) ==
    /\ tr.formats # <<>>
    /\ ~Chosen(tr).resp.raises
    /\ Chosen(tr).resp.status = HttpOK
    /\ ExtractSubtitleText(Chosen(tr).resp.text).text # <<>>

\* The tracks of a manifest whose fetch raises or whose payload does not parse.
TrackFailed(tr) ==
    /\ tr.formats # <<>>
    /\ \/ Chosen(tr).resp.raises
       \/ /\ Chosen(tr).resp.status = HttpOK
          /\ Chosen(tr).resp.text.kind = "malformed"

\* The labeled texts of the good tracks of a manifest, in its order.
GoodLabeled(tracks, label) ==
    LET kept == SelectSeq(tracks, TrackGood)
    IN  [k \in 1..Len(kept) |->
            <<label, kept[k].lang, ": ">>
            \o ExtractSubtitleText(Chosen(kept[k]).resp.text).text]

\* The detail fetch and the write of the call succeeded, and the stub has an id.
OnlyTrackFailures ==
    /\ pc = "video_done"
    /\ Truthy(IdOf(arg))
    /\ ~arg.d.raises /\ ~arg.d.isNone
    /\ arg.writeOK

\* C13: when nothing but caption tracks fails (the fetch of a track raises,
\* or its payload does not parse), the call returns True, the caption_text
\* is made of the labeled texts of exactly the other tracks, the failed ones
\* left out and those after a failed one still there, and the record, ending
\* with that caption_text, is appended to the file.
C13_TrackFailureConfined ==
    OnlyTrackFailures =>
        LET good == GoodLabeled(arg.d.subtitles, "manual_caption_")
                    \o GoodLabeled(arg.d.automatic_captions, "auto_caption_")
            caption == IF good = <<>> THEN NoCaption ELSE Join(good, TAB)
            n == Len(res.text)
        IN  /\ res.ret = TRUE
            /\ Str(res.record["caption_text"]) = caption
            /\ n > Len(caption)
            /\ SubSeq(res.text, n - Len(caption), n) = caption \o <<NL>>
            /\ file = HeaderLine \o res.text

\* A call whose manual track does not parse and whose first automatic track
\* cannot be fetched: the caption is the second automatic track alone.
C13_Witness ==
    /\ OnlyTrackFailures
    /\ \E i \in 1..Len(arg.d.subtitles) : TrackFailed(arg.d.subtitles[i])
    /\ Len(arg.d.automatic_captions) = 2
    /\ TrackFailed(arg.d.automatic_captions[1])
    /\ TrackGood(arg.d.automatic_captions[2])
    /\ Str(res.record["caption_text"]) = <<"auto_caption_", "en", ": ", "world">>
    /\ res.text # <<>>

-----------------------------------------------------------------------------
(* SpecReport: DataProcessor.generate_report.  A record is the set of its   *)
(* keys; a data frame is its number of rows and the set of its columns,     *)
(* the union of the keys of its rows.                                       *)

RECURSIVE Keys(_)
\* The columns pd.DataFrame gives a list of dicts.
Keys(data) == IF data = <<>> THEN {} ELSE Head(data) \cup Keys(Tail(data))

\* The keys a scraped record can have, besides 'platform'.
RecordKeys == {"video_id", "view_count", "channel_country", "title"}

Frame(rows, columns) == [rows |-> rows, columns |-> columns]

\* What a view did: raised, the sheets it wrote, what it logged.
View(raised, sheets, entries) == [raised |-> raised, sheets |-> sheets, log |-> entries]

\* _prepare_dataframe
PrepareDataframe(youtube_data, tiktok_data) ==
    IF youtube_data = <<>> /\ tiktok_data = <<>>
    THEN [df |-> Frame(0, {}),
          log |-> <<LogEntry("warning", "both data empty", 0)>>]
    ELSE LET all_data == [i \in 1..Len(youtube_data) |-> youtube_data[i] \cup {"platform"}]
                         \o [i \in 1..Len(tiktok_data) |-> tiktok_data[i] \cup {"platform"}]
         IN  [df |-> Frame(Len(all_data), Keys(all_data)),
              log |-> <<LogEntry("info", "frame columns", 0),
                        LogEntry("info", "frame size", Len(all_data))>>]

\* df.empty
Empty(df) == df.rows = 0 \/ df.columns = {}

\* _validate_data
ValidateData(df) ==
    IF "platform" \notin df.columns
    THEN [ok |-> FALSE, log |-> <<LogEntry("error", "missing required columns", 0)>>]
    ELSE [ok |-> TRUE, log |-> <<>>]

\* _create_overview_sheet
CreateOverviewSheet(df) ==
    View(FALSE, <<"overview">>, <<LogEntry("info", "overview created", 0)>>)

\* _create_platform_comparison_sheet
CreatePlatformComparisonSheet(df) ==
    IF "platform" \notin df.columns
    THEN View(FALSE, <<>>, <<LogEntry("warning", "no platform, skip comparison", 0)>>)
    ELSE IF {"view_count", "like_count", "comment_count"} \cap df.columns = {}
    THEN View(FALSE, <<>>, <<LogEntry("warning", "no numeric columns for comparison", 0)>>)
    ELSE View(FALSE, <<"platform_comparison">>,
              <<LogEntry("info", "comparison created", 0)>>)

\* _create_detailed_data_sheet
CreateDetailedDataSheet(df) ==
    IF {"platform", "video_id", "title", "view_count", "like_count", "comment_count",
        "publish_time", "channel_title", "channel_country"} \cap df.columns = {}
    THEN View(FALSE, <<>>, <<LogEntry("warning", "no columns for detail", 0)>>)
    ELSE View(FALSE, <<"detail">>, <<LogEntry("info", "detail created", 0)>>)

\* _create_geographic_distribution_sheet: agg_columns always names
\* 'video_id' (line 213), and agg raises on a column the frame has not
\* (line 219); the except clause logs and raises again.
CreateGeographicDistributionSheet(df) ==
    IF "channel_country" \notin df.columns
    THEN View(FALSE, <<>>, <<LogEntry("warning", "no channel_country, skip geographic", 0)>>)
    ELSE IF "video_id" \notin df.columns
    THEN View(TRUE, <<>>, <<LogEntry("error", "geographic failed", 0)>>)
    ELSE View(FALSE, <<"geographic">>, <<LogEntry("info", "geographic created", 0)>>)

RecordLists == SeqsUpTo(SUBSET RecordKeys, MaxRecords)

InitReport ==
    /\ pc = "report_call"
    /\ arg \in [youtube_data : RecordLists, tiktok_data : RecordLists]
    /\ res = [df |-> Frame(0, {}), sheets |-> <<>>, raised |-> FALSE]
    /\ search_terms = <<>>
    /\ file = <<>>
    /\ log = <<>>
    /\ term_index = 0
    /\ videos = <<>>
    /\ global_index = 0
    /\ total_count = 0
    /\ delays = <<>>
    /\ ret = -1
    /\ calls = <<>>
    /\ searches = <<>>

\* generate_report, lines 88-108: the frame, the two early returns.
ReportStart ==
    /\ pc = "report_call"
    /\ LET p == PrepareDataframe(arg.youtube_data, arg.tiktok_data)
           v == ValidateData(p.df)
           head == <<LogEntry("info", "report started", 0)>> \o p.log
       IN  /\ res' = [res EXCEPT !.df = p.df]
           /\ IF Empty(p.df)
              THEN /\ log' = log \o head \o <<LogEntry("error", "no data for report", 0)>>
                   /\ pc' = "report_done"
              ELSE IF ~v.ok
              THEN /\ log' = log \o head \o v.log
                               \o <<LogEntry("error", "validation failed", 0)>>
                   /\ pc' = "report_done"
              ELSE /\ log' = log \o head \o <<LogEntry("info", "creating report", 0)>>
                   /\ pc' = "overview"
    /\ UNCHANGED <<search_terms, file, term_index, videos, global_index,
                   total_count, delays, ret, calls, searches, arg>>

\* What follows a view inside the with block (lines 110-125): the next
\* view, the success entry of line 127 after the last one, or the except
\* clause of lines 129-131 when the view raised.
AfterView(v, next) ==
    [pc |-> IF v.raised THEN "report_raised" ELSE next,
     res |-> [res EXCEPT !.sheets = @ \o v.sheets, !.raised = v.raised],
     log |-> log \o <<LogEntry("info", "creating view", 0)>> \o v.log
             \o (IF v.raised THEN <<LogEntry("error", "report failed", 0)>>
                 ELSE IF next = "report_done"
                 THEN <<LogEntry("info", "report generated", 0)>>
                 ELSE <<>>)]

\* lines 112-113
ReportOverview ==
    /\ pc = "overview"
    /\ LET n == AfterView(CreateOverviewSheet(res.df), "platform")
       IN  pc' = n.pc /\ res' = n.res /\ log' = n.log
    /\ UNCHANGED <<search_terms, file, term_index, videos, global_index,
                   total_count, delays, ret, calls, searches, arg>>

\* lines 116-117
ReportPlatform ==
    /\ pc = "platform"
    /\ LET n == AfterView(CreatePlatformComparisonSheet(res.df), "detail")
       IN  pc' = n.pc /\ res' = n.res /\ log' = n.log
    /\ UNCHANGED <<search_terms, file, term_index, videos, global_index,
                   total_count, delays, ret, calls, searches, arg>>

\* lines 120-121
ReportDetail ==
    /\ pc = "detail"
    /\ LET n == AfterView(CreateDetailedDataSheet(res.df), "geographic")
       IN  pc' = n.pc /\ res' = n.res /\ log' = n.log
    /\ UNCHANGED <<search_terms, file, term_index, videos, global_index,
                   total_count, delays, ret, calls, searches, arg>>

\* lines 124-131
ReportGeographic ==
    /\ pc = "geographic"
    /\ LET n == AfterView(CreateGeographicDistributionSheet(res.df), "report_done")
       IN  pc' = n.pc /\ res' = n.res /\ log' = n.log
    /\ UNCHANGED <<search_terms, file, term_index, videos, global_index,
                   total_count, delays, ret, calls, searches, arg>>

NextReport ==
    \/ ReportStart
    \/ ReportOverview
    \/ ReportPlatform
    \/ ReportDetail
    \/ ReportGeographic

SpecReport == InitReport /\ [][NextReport]_vars

-----------------------------------------------------------------------------
(* C14 *)

Logged(level, msg) == \E i \in 1..Len(log) : log[i] = LogEntry(level, msg, 0)

\* C14 (as claimed): generate_report never raises because a column is
\* absent; a view whose required column is absent writes no sheet and logs
\* its skip; without channel_country the geographic view is skipped with a
\* warning and no error is logged for it.
C14_AbsentColumnNeverRaises ==
    /\ pc # "report_raised"
    /\ ~res.raised
    /\ (pc = "report_done" /\ ~Empty(res.df)) =>
          /\ "channel_country" \notin res.df.columns =>
                /\ Logged("warning", "no channel_country, skip geographic")
                /\ ~Logged("error", "geographic failed")
                /\ \A i \in 1..Len(res.sheets) : res.sheets[i] # "geographic"
          /\ "platform" \notin res.df.columns =>
                /\ Logged("warning", "no platform, skip comparison")
                /\ \A i \in 1..Len(res.sheets) : res.sheets[i] # "platform_comparison"

====
